---- MODULE Spec2Model ----
(***************************************************************************)
(* Step configuration decoding and encoding of package atc                 *)
(* (Step.UnmarshalJSON, Step.MarshalJSON, the StepConfig variants, the     *)
(* VersionConfig and InputsConfig selectors).                              *)
(*                                                                         *)
(* JSON documents are modelled as tagged records:                          *)
(*   [t |-> "null"], [t |-> "str", s |-> ..], [t |-> "num", n |-> ..],      *)
(*   [t |-> "bool", b |-> ..], [t |-> "list", l |-> <<..>>],                *)
(*   [t |-> "obj", o |-> function from key to JSON value].                 *)
(* Decoded Go values reuse these records for strings, numbers, booleans,   *)
(* []string, map[string]string and map[string]interface{}; a nil pointer,  *)
(* nil slice or nil map is Null.                                           *)
(*                                                                         *)
(* Params, Tags, Version and TaskConfig are declared outside this file:    *)
(* they are taken to be map[string]interface{}, []string,                  *)
(* map[string]string and a struct; no input document carries a field of    *)
(* the first, second or last of them.  Keys are matched exactly and the    *)
(* input documents carry lower-case keys only (encoding/json would also    *)
(* match a struct field by a key that differs in case).                    *)
(*                                                                         *)
(* The module also holds the locking of package dbngfakes'                 *)
(* FakeCreatedContainer: goroutines that call its recording methods and    *)
(* Invocations() on one shared fake, each sync.RWMutex held as a writer    *)
(* and a set of readers.  The <Method>CallCount and <Method>Returns        *)
(* methods are left out.                                                   *)
(***************************************************************************)
EXTENDS Integers, Sequences, FiniteSets, TLC

VARIABLES
    data,       \* the bytes handed to Step.UnmarshalJSON (a JSON value)
    step,       \* the receiver: [Config |-> StepConfig]
    before,     \* the receiver as it was when the current call started
    err,        \* the error returned by Step.UnmarshalJSON
    trace,      \* the ParseJSON / Wrap calls made by Step.UnmarshalJSON
    out,        \* the document returned by Step.MarshalJSON
    pc,         \* "call", "returned", "marshalled"
    vc,         \* a VersionConfig value
    vcIn,       \* the bytes last unmarshalled into vc (Null: none since vc was built)
    vcErr,      \* TRUE iff that UnmarshalJSON returned an error
    vcFresh,    \* TRUE iff that UnmarshalJSON started from the zero VersionConfig
    vcOut,      \* what MarshalJSON returned for vc (Null: not marshalled since)
    ic,         \* an InputsConfig value
    icIn,       \* the bytes last unmarshalled into ic (Null: none since ic was built)
    icErr,      \* TRUE iff that UnmarshalJSON returned an error
    icFresh,    \* TRUE iff that UnmarshalJSON started from the zero InputsConfig
    icOut,      \* what MarshalJSON returned for ic (Null: not marshalled since)
    gor,        \* per goroutine: the FakeCreatedContainer call it is in and where
    mutex,      \* per sync.RWMutex of the fake: the writer and the readers
    argsForCall,    \* per recording method: len(fake.<method>ArgsForCall)
    invocations,    \* per recording method: len(fake.invocations[<method>])
    started     \* the number of calls on the fake started so far

stepVars == <<data, step, before, err, trace, out, pc>>
versionVars == <<vc, vcIn, vcErr, vcFresh, vcOut>>
inputsVars == <<ic, icIn, icErr, icFresh, icOut>>
selVars == <<vc, vcIn, vcErr, vcFresh, vcOut, ic, icIn, icErr, icFresh, icOut>>
fakeVars == <<gor, mutex, argsForCall, invocations, started>>
vars == <<data, step, before, err, trace, out, pc,
          vc, vcIn, vcErr, vcFresh, vcOut, ic, icIn, icErr, icFresh, icOut,
          gor, mutex, argsForCall, invocations, started>>

(***************************************************************************)
(* JSON values                                                             *)
(***************************************************************************)
Null == [t |-> "null"]
Str(s) == [t |-> "str", s |-> s]
Num(n) == [t |-> "num", n |-> n]
Bool(b) == [t |-> "bool", b |-> b]
List(l) == [t |-> "list", l |-> l]
Obj(o) == [t |-> "obj", o |-> o]

EmptyFields == [k \in {} |-> Null]

\* strings.TrimSpace on the strings of the model
TrimSpace(s) ==
    CASE s = " b " -> "b"
      [] s = " " -> ""
      [] OTHER -> s

(***************************************************************************)
(* VersionConfig                                                           *)
(***************************************************************************)
VersionLatest == "latest"
VersionEvery == "every"
InputsAll == "all"
InputsDetect == "detect"

ZeroVersionConfig == [Every |-> FALSE, Latest |-> FALSE, Pinned |-> Null]
ZeroInputsConfig == [All |-> FALSE, Detect |-> FALSE, Specified |-> Null]

\* (c *VersionConfig) UnmarshalJSON: the result is [ok, val]; on error the
\* receiver is what the code left in it.
VersionUnmarshalJSON(c, version) ==
    CASE version.t = "str" ->
            [ok |-> TRUE,
             val |-> [c EXCEPT !.Every = (version.s = "every"),
                               !.Latest = (version.s = "latest")]]
      [] version.t = "obj" ->
            IF \A k \in DOMAIN version.o : version.o[k].t = "str"
            THEN [ok |-> TRUE, val |-> [c EXCEPT !.Pinned = version]]
            ELSE [ok |-> FALSE, val |-> c]
      [] OTHER -> [ok |-> FALSE, val |-> c]

VersionMarshalEveryFirst(c) ==
    IF c.Every THEN Str(VersionEvery)
    ELSE IF c.Latest THEN Str(VersionLatest)
    ELSE IF c.Pinned # Null THEN c.Pinned
    ELSE Str("")

\* (c *VersionConfig) MarshalJSON
VersionMarshalJSON(c) ==
    IF c.Latest THEN Str(VersionLatest)
    ELSE IF c.Every THEN Str(VersionEvery)
    ELSE IF c.Pinned # Null THEN c.Pinned
    ELSE Str("")

(***************************************************************************)
(* InputsConfig                                                            *)
(***************************************************************************)
\* (c *InputsConfig) UnmarshalJSON
InputsUnmarshalJSON(c, inputs) ==
    CASE inputs.t = "str" ->
            [ok |-> TRUE,
             val |-> [c EXCEPT !.All = (inputs.s = "all"),
                               !.Detect = (inputs.s = "detect")]]
      [] inputs.t = "list" ->
            IF \A i \in 1..Len(inputs.l) : inputs.l[i].t = "str"
            THEN [ok |-> TRUE,
                  val |-> [c EXCEPT !.Specified =
                             List([i \in 1..Len(inputs.l) |-> Str(TrimSpace(inputs.l[i].s))])]]
            ELSE [ok |-> FALSE, val |-> c]
      [] OTHER -> [ok |-> FALSE, val |-> c]

\* (c InputsConfig) MarshalJSON
InputsMarshalJSON(c) ==
    IF c.All THEN Str(InputsAll)
    ELSE IF c.Detect THEN Str(InputsDetect)
    ELSE IF c.Specified # Null THEN c.Specified
    ELSE Str("")

(***************************************************************************)
(* Step variants                                                           *)
(***************************************************************************)
D(k, n) == [Key |-> k, New |-> n]

StepPrecedenceGetBeforePut ==
    << D("ensure", "EnsureStep"), D("on_error", "OnErrorStep"),
       D("on_abort", "OnAbortStep"), D("on_failure", "OnFailureStep"),
       D("on_success", "OnSuccessStep"), D("attempts", "RetryStep"),
       D("timeout", "TimeoutStep"), D("task", "TaskStep"), D("get", "GetStep"),
       D("put", "PutStep"), D("set_pipeline", "SetPipelineStep"),
       D("load_var", "LoadVarStep"), D("try", "TryStep"), D("do", "DoStep"),
       D("in_parallel", "InParallelStep"), D("aggregate", "AggregateStep") >>

\* var StepPrecedence: the step types in the order they are parsed
StepPrecedence ==
    << D("ensure", "EnsureStep"), D("on_error", "OnErrorStep"),
       D("on_abort", "OnAbortStep"), D("on_failure", "OnFailureStep"),
       D("on_success", "OnSuccessStep"), D("attempts", "RetryStep"),
       D("timeout", "TimeoutStep"), D("task", "TaskStep"), D("put", "PutStep"),
       D("get", "GetStep"), D("set_pipeline", "SetPipelineStep"),
       D("load_var", "LoadVarStep"), D("try", "TryStep"), D("do", "DoStep"),
       D("in_parallel", "InParallelStep"), D("aggregate", "AggregateStep") >>

\* the step types whose Wrap assigns the Step field (modifiers)
ModifierKinds ==
    {"EnsureStep", "OnErrorStep", "OnAbortStep", "OnFailureStep",
     "OnSuccessStep", "RetryStep", "TimeoutStep"}

\* the step types whose Wrap is a no-op and whose ParseJSON is strict (core)
CoreKinds ==
    {"TaskStep", "PutStep", "GetStep", "SetPipelineStep", "LoadVarStep",
     "TryStep", "DoStep", "InParallelStep", "AggregateStep"}

PrecedenceKeys == {StepPrecedence[i].Key : i \in 1..Len(StepPrecedence)}
KeyIndex(k) == CHOOSE i \in 1..Len(StepPrecedence) : StepPrecedence[i].Key = k
KindOfKey(k) == StepPrecedence[KeyIndex(k)].New
KeyOfKind(n) == StepPrecedence[CHOOSE i \in 1..Len(StepPrecedence) : StepPrecedence[i].New = n].Key
ModifierKeys == {k \in PrecedenceKeys : KindOfKey(k) \in ModifierKinds}
CoreKeys == {k \in PrecedenceKeys : KindOfKey(k) \in CoreKinds}

\* one struct field: its json name, its Go type, whether it is omitempty
F(n, ty, oe) == [name |-> n, type |-> ty, omitempty |-> oe]

\* the json-tagged fields of each step struct
Fields(kind) ==
    CASE kind = "GetStep" ->
            {F("get", "string", FALSE), F("resource", "string", TRUE),
             F("version", "version", TRUE), F("params", "params", TRUE),
             F("passed", "strlist", TRUE), F("trigger", "bool", TRUE),
             F("tags", "strlist", TRUE)}
      [] kind = "PutStep" ->
            {F("put", "string", FALSE), F("resource", "string", TRUE),
             F("params", "params", TRUE), F("inputs", "inputs", TRUE),
             F("tags", "strlist", TRUE), F("get_params", "params", TRUE)}
      [] kind = "TaskStep" ->
            {F("task", "string", FALSE), F("privileged", "bool", TRUE),
             F("file", "string", TRUE), F("config", "taskconfig", TRUE),
             F("params", "params", TRUE), F("vars", "params", TRUE),
             F("tags", "strlist", TRUE), F("input_mapping", "strmap", TRUE),
             F("output_mapping", "strmap", TRUE), F("image", "string", TRUE)}
      [] kind = "SetPipelineStep" ->
            {F("set_pipeline", "string", FALSE), F("file", "string", TRUE),
             F("team", "string", TRUE), F("vars", "params", TRUE),
             F("var_files", "strlist", TRUE)}
      [] kind = "LoadVarStep" ->
            {F("load_var", "string", FALSE), F("file", "string", TRUE),
             F("format", "string", TRUE), F("reveal", "bool", TRUE)}
      [] kind = "TryStep" -> {F("try", "step", FALSE)}
      [] kind = "DoStep" -> {F("do", "steps", FALSE)}
      [] kind = "AggregateStep" -> {F("aggregate", "steps", FALSE)}
      [] kind = "InParallelStep" -> {F("in_parallel", "inparallel", FALSE)}
      [] kind = "RetryStep" -> {F("attempts", "int", FALSE)}
      [] kind = "TimeoutStep" -> {F("timeout", "string", FALSE)}
      [] kind = "OnSuccessStep" -> {F("on_success", "step", FALSE)}
      [] kind = "OnFailureStep" -> {F("on_failure", "step", FALSE)}
      [] kind = "OnErrorStep" -> {F("on_error", "step", FALSE)}
      [] kind = "OnAbortStep" -> {F("on_abort", "step", FALSE)}
      [] kind = "EnsureStep" -> {F("ensure", "step", FALSE)}

FieldNames(kind) == {fd.name : fd \in Fields(kind)}
FieldNamed(kind, n) == CHOOSE fd \in Fields(kind) : fd.name = n

\* the Go type and the omitempty option of every field, by step type and json name
TypeOf ==
    [kind \in ModifierKinds \cup CoreKinds |->
        [n \in FieldNames(kind) |-> FieldNamed(kind, n).type]]
OmitEmpty ==
    [kind \in ModifierKinds \cup CoreKinds |->
        [n \in FieldNames(kind) |-> FieldNamed(kind, n).omitempty]]

\* a nil StepConfig interface value
NilStep == [kind |-> "nil"]

ZeroInParallelConfig == [Steps |-> Null, Limit |-> 0, FailFast |-> FALSE]

\* the zero value of a field of the given Go type
Zero(ty) ==
    CASE ty = "string" -> Str("")
      [] ty = "bool" -> Bool(FALSE)
      [] ty = "int" -> Num(0)
      [] ty = "step" -> [Config |-> NilStep]
      [] ty = "inparallel" -> ZeroInParallelConfig
      [] OTHER -> Null

\* errors returned by Step.UnmarshalJSON
NoError == [kind |-> "nil"]
FormatError == [kind |-> "format"]
ErrNoStepConfigured == [kind |-> "no step configured"]
MalformedStepError(key) == [kind |-> "malformed", StepType |-> key]

Restrict(f, S) == [k \in S |-> f[k]]
Merge(f, g) == [k \in DOMAIN f \cup DOMAIN g |-> IF k \in DOMAIN f THEN f[k] ELSE g[k]]

\* s.New(): the zero value of the step struct
New(kind) ==
    [kind |-> kind,
     f |-> [n \in DOMAIN TypeOf[kind] |-> Zero(TypeOf[kind][n])],
     Step |-> NilStep]

UnwrapNothing(cfg) == NilStep

\* Unwrap: the Step field of a modifier, nil for a core step
Unwrap(cfg) == IF cfg.kind \in ModifierKinds THEN cfg.Step ELSE NilStep

WrapReplace(outer, sub) ==
    IF outer.kind \in ModifierKinds THEN [outer EXCEPT !.Step = sub] ELSE outer

WrapNoOp(outer, sub) == outer

\* Wrap: a modifier hands sub down to the innermost modifier, which keeps it in
\* its Step field; a core step ignores it
RECURSIVE Wrap(_, _)
Wrap(outer, sub) ==
    IF outer.kind \in ModifierKinds
    THEN IF outer.Step # NilStep
         THEN [outer EXCEPT !.Step = Wrap(outer.Step, sub)]
         ELSE [outer EXCEPT !.Step = sub]
    ELSE outer

\* the step type on which a Wrap call started at outer ends
RECURSIVE WrapTarget(_)
WrapTarget(outer) ==
    IF outer.kind \in ModifierKinds /\ outer.Step # NilStep
    THEN WrapTarget(outer.Step)
    ELSE outer.kind

(***************************************************************************)
(* Decoding                                                                *)
(***************************************************************************)
RECURSIVE UnmarshalLoop(_, _, _, _, _, _)
RECURSIVE DecodeField(_, _)
RECURSIVE DecodeSteps(_)

\* delete(deferred, s.Key)
DeleteKeepsKey(deferred, key) == deferred

DeleteKey(deferred, key) == Restrict(deferred, DOMAIN deferred \ {key})

\* json.Marshal(deferred): the remaining keys with their raw values
Remarshal(deferred) == deferred

\* json.Unmarshal into a struct, unknown fields ignored: [ok, val]
StructDecode(kind, dat) ==
    LET ty == TypeOf[kind]
        dec == [n \in DOMAIN ty |->
                  IF n \in DOMAIN dat
                  THEN DecodeField(ty[n], dat[n])
                  ELSE [ok |-> TRUE, val |-> Zero(ty[n])]]
    IN  IF \E n \in DOMAIN ty : ~dec[n].ok
        THEN [ok |-> FALSE, val |-> New(kind)]
        ELSE [ok |-> TRUE,
              val |-> [kind |-> kind,
                       f |-> [n \in DOMAIN ty |-> dec[n].val],
                       Step |-> NilStep]]

unmarshalLenient(kind, dat) == StructDecode(kind, dat)

\* unmarshalStrict: a decoder with DisallowUnknownFields
unmarshalStrict(kind, dat) ==
    IF DOMAIN dat \ DOMAIN TypeOf[kind] # {}
    THEN [ok |-> FALSE, val |-> New(kind)]
    ELSE StructDecode(kind, dat)

\* ParseJSON of each step type: strict for the core steps, json.Unmarshal for
\* the modifiers
ParseJSON(kind, dat) ==
    IF kind \in CoreKinds THEN unmarshalStrict(kind, dat) ELSE StructDecode(kind, dat)

NoStepWhenNoCore(recv, outerStep, tr) ==
    IF outerStep = NilStep \/ WrapTarget(outerStep) \notin CoreKinds
    THEN [err |-> ErrNoStepConfigured, Config |-> recv.Config, trace |-> tr]
    ELSE [err |-> NoError, Config |-> outerStep, trace |-> tr]

\* the end of Step.UnmarshalJSON, after the loop over StepPrecedence
Finish(recv, outerStep, tr) ==
    IF outerStep = NilStep
    THEN [err |-> ErrNoStepConfigured, Config |-> recv.Config, trace |-> tr]
    ELSE [err |-> NoError, Config |-> outerStep, trace |-> tr]

FailKeepsPartial(recv, key, outerStep, tr) ==
    [err |-> MalformedStepError(key), Config |-> outerStep, trace |-> tr]

\* the return of MalformedStepError from inside the loop
Fail(recv, key, outerStep, tr) ==
    [err |-> MalformedStepError(key), Config |-> recv.Config, trace |-> tr]

\* the loop of Step.UnmarshalJSON from StepPrecedence[i] on
UnmarshalLoop(recv, dat, deferred, i, outerStep, tr) ==
    IF i > Len(StepPrecedence) THEN Finish(recv, outerStep, tr)
    ELSE
      LET s == StepPrecedence[i] IN
      IF s.Key \notin DOMAIN deferred
      THEN UnmarshalLoop(recv, dat, deferred, i + 1, outerStep, tr)
      ELSE
        LET parsed == ParseJSON(s.New, dat)
            tr1 == Append(tr, [op |-> "ParseJSON", key |-> s.Key, data |-> Obj(dat)])
        IN
        IF ~parsed.ok THEN Fail(recv, s.Key, outerStep, tr1)
        ELSE
          LET newOuter == IF outerStep = NilStep THEN parsed.val
                          ELSE Wrap(outerStep, parsed.val)
              tr2 == IF outerStep = NilStep THEN tr1
                     ELSE Append(tr1, [op |-> "Wrap", key |-> s.Key,
                                       target |-> WrapTarget(outerStep)])
              rest == DeleteKey(deferred, s.Key)
          IN UnmarshalLoop(recv, Remarshal(rest), rest, i + 1, newOuter, tr2)

\* (step *Step) UnmarshalJSON(data): [err, Config, trace], Config being the
\* receiver's Config field when the call returns
UnmarshalJSON(recv, d) ==
    CASE d.t = "obj" -> UnmarshalLoop(recv, d.o, d.o, 1, NilStep, <<>>)
      [] d.t = "null" -> Finish(recv, NilStep, <<>>)
      [] OTHER -> [err |-> FormatError, Config |-> recv.Config, trace |-> <<>>]

\* []Step: each element decoded by Step.UnmarshalJSON into a zero Step
DecodeSteps(v) ==
    CASE v.t = "null" -> [ok |-> TRUE, val |-> Null]
      [] v.t = "list" ->
            LET rs == [i \in 1..Len(v.l) |-> UnmarshalJSON([Config |-> NilStep], v.l[i])]
            IN  IF \E i \in 1..Len(v.l) : rs[i].err # NoError
                THEN [ok |-> FALSE, val |-> Null]
                ELSE [ok |-> TRUE,
                      val |-> [t |-> "steps",
                               l |-> [i \in 1..Len(v.l) |-> [Config |-> rs[i].Config]]]]
      [] OTHER -> [ok |-> FALSE, val |-> Null]

\* (c *InParallelConfig) UnmarshalJSON into a zero InParallelConfig
InParallelUnmarshalJSON(payload) ==
    CASE payload.t = "list" ->
            LET r == DecodeSteps(payload)
            IN  [ok |-> r.ok, val |-> [ZeroInParallelConfig EXCEPT !.Steps = r.val]]
      [] payload.t = "obj" ->
            LET o == payload.o
                st == IF "steps" \in DOMAIN o THEN DecodeSteps(o["steps"])
                      ELSE [ok |-> TRUE, val |-> Null]
                limOk == "limit" \in DOMAIN o => o["limit"].t \in {"num", "null"}
                ffOk == "fail_fast" \in DOMAIN o => o["fail_fast"].t \in {"bool", "null"}
            IN  IF st.ok /\ limOk /\ ffOk
                THEN [ok |-> TRUE,
                      val |-> [Steps |-> st.val,
                               Limit |-> IF "limit" \in DOMAIN o /\ o["limit"].t = "num"
                                         THEN o["limit"].n ELSE 0,
                               FailFast |-> IF "fail_fast" \in DOMAIN o /\ o["fail_fast"].t = "bool"
                                            THEN o["fail_fast"].b ELSE FALSE]]
                ELSE [ok |-> FALSE, val |-> ZeroInParallelConfig]
      [] OTHER -> [ok |-> FALSE, val |-> ZeroInParallelConfig]

\* encoding/json decoding one value into a zero field of the given Go type;
\* the types with an UnmarshalJSON method are handed null as well, for the
\* others null leaves the field as it is
DecodeField(ty, v) ==
    IF ty = "step" THEN
        LET r == UnmarshalJSON([Config |-> NilStep], v)
        IN  [ok |-> r.err = NoError, val |-> [Config |-> r.Config]]
    ELSE IF ty = "steps" THEN DecodeSteps(v)
    ELSE IF ty = "inparallel" THEN InParallelUnmarshalJSON(v)
    ELSE IF v.t = "null" THEN [ok |-> TRUE, val |-> Zero(ty)]
    ELSE IF ty = "string" THEN [ok |-> v.t = "str", val |-> IF v.t = "str" THEN v ELSE Zero(ty)]
    ELSE IF ty = "bool" THEN [ok |-> v.t = "bool", val |-> IF v.t = "bool" THEN v ELSE Zero(ty)]
    ELSE IF ty = "int" THEN [ok |-> v.t = "num", val |-> IF v.t = "num" THEN v ELSE Zero(ty)]
    ELSE IF ty = "strlist" THEN
        LET good == v.t = "list" /\ \A i \in 1..Len(v.l) : v.l[i].t \in {"str", "null"}
        IN  [ok |-> good,
             val |-> IF good
                     THEN List([i \in 1..Len(v.l) |->
                                  IF v.l[i].t = "null" THEN Str("") ELSE v.l[i]])
                     ELSE Null]
    ELSE IF ty = "strmap" THEN
        LET good == v.t = "obj" /\ \A k \in DOMAIN v.o : v.o[k].t \in {"str", "null"}
        IN  [ok |-> good,
             val |-> IF good
                     THEN Obj([k \in DOMAIN v.o |->
                                  IF v.o[k].t = "null" THEN Str("") ELSE v.o[k]])
                     ELSE Null]
    ELSE IF ty \in {"params", "taskconfig"} THEN
        [ok |-> v.t = "obj", val |-> IF v.t = "obj" THEN v ELSE Null]
    ELSE IF ty = "version" THEN
        LET r == VersionUnmarshalJSON(ZeroVersionConfig, v)
        IN  [ok |-> r.ok, val |-> IF r.ok THEN r.val ELSE Null]
    ELSE
        LET r == InputsUnmarshalJSON(ZeroInputsConfig, v)
        IN  [ok |-> r.ok, val |-> IF r.ok THEN r.val ELSE Null]

(***************************************************************************)
(* Encoding                                                                *)
(***************************************************************************)
RECURSIVE MarshalLoop(_, _)
RECURSIVE EncodeField(_, _)
RECURSIVE EncodeSteps(_)

\* encoding/json's omitempty test: false, 0, a nil pointer, and an empty
\* string, slice or map
IsEmptyValue(ty, v) ==
    CASE ty = "string" -> v.s = ""
      [] ty = "bool" -> ~v.b
      [] ty = "int" -> v.n = 0
      [] ty = "strlist" -> v = Null \/ Len(v.l) = 0
      [] ty \in {"strmap", "params"} -> v = Null \/ DOMAIN v.o = {}
      [] OTHER -> v = Null

\* json.Marshal of a step struct: the tagged fields, the empty omitempty ones
\* left out, the Step field (json:"-") never written
MarshalStruct(cfg) ==
    LET ty == TypeOf[cfg.kind]
        kept == {n \in DOMAIN ty :
                    ~(OmitEmpty[cfg.kind][n] /\ IsEmptyValue(ty[n], cfg.f[n]))}
    IN  [n \in kept |-> EncodeField(ty[n], cfg.f[n])]

MergeKeepOuter(fields, payload) == Merge(fields, payload)

\* json.Unmarshal(payload, &fields): every key of payload is set in fields
UnmarshalInto(fields, payload) == Merge(payload, fields)

\* the loop of Step.MarshalJSON
MarshalLoop(unwrapped, fields) ==
    IF unwrapped = NilStep THEN fields
    ELSE MarshalLoop(Unwrap(unwrapped), UnmarshalInto(fields, MarshalStruct(unwrapped)))

\* (step Step) MarshalJSON
MarshalJSON(st) == Obj(MarshalLoop(st.Config, EmptyFields))

\* json.Marshal of a []Step
EncodeSteps(v) ==
    IF v = Null THEN Null
    ELSE List([i \in 1..Len(v.l) |-> MarshalJSON(v.l[i])])

\* json.Marshal of an InParallelConfig (no MarshalJSON method: a struct with
\* three omitempty fields)
InParallelMarshal(c) ==
    LET ks == (IF c.Steps # Null /\ Len(c.Steps.l) > 0 THEN {"steps"} ELSE {})
              \cup (IF c.Limit # 0 THEN {"limit"} ELSE {})
              \cup (IF c.FailFast THEN {"fail_fast"} ELSE {})
    IN  Obj([k \in ks |->
               CASE k = "steps" -> EncodeSteps(c.Steps)
                 [] k = "limit" -> Num(c.Limit)
                 [] k = "fail_fast" -> Bool(c.FailFast)])

\* json.Marshal of one field of the given Go type
EncodeField(ty, v) ==
    CASE ty = "step" -> MarshalJSON(v)
      [] ty = "steps" -> EncodeSteps(v)
      [] ty = "inparallel" -> InParallelMarshal(v)
      [] ty = "version" -> IF v = Null THEN Null ELSE VersionMarshalJSON(v)
      [] ty = "inputs" -> IF v = Null THEN Null ELSE InputsMarshalJSON(v)
      [] OTHER -> v

(***************************************************************************)
(* Input documents                                                         *)
(***************************************************************************)
\* the largest number of top-level keys of an input document
MaxKeys == 3

LeafGet == Obj([k \in {"get"} |-> Str("x")])
LeafUnknown == Obj([k \in {"unknown_key"} |-> Num(1)])
OneStep == List(<<LeafGet>>)

\* the top-level keys of the input documents: every StepPrecedence key, three
\* fields of the get and put steps, and a key no step type knows
TopKeys == PrecedenceKeys \cup {"resource", "version", "inputs", "bogus_field"}

\* the values each key takes in the input documents
Vals(k) ==
    CASE k \in {"ensure", "on_success", "try"} -> {LeafGet, LeafUnknown}
      [] k \in {"on_error", "on_abort", "on_failure"} -> {LeafGet}
      [] k = "attempts" -> {Num(3), Str("three")}
      [] k = "timeout" -> {Str("5m"), Num(5)}
      [] k = "get" -> {Str("x"), Num(1)}
      [] k = "put" -> {Str("y")}
      [] k \in {"task", "set_pipeline", "load_var"} -> {Str("x")}
      [] k \in {"do", "aggregate"} -> {OneStep}
      [] k = "in_parallel" ->
            {OneStep, List(<<>>),
             Obj([f \in {"steps", "limit"} |-> IF f = "steps" THEN OneStep ELSE Num(2)])}
      [] k = "resource" -> {Str("r")}
      [] k = "version" ->
            {Str("latest"), Str("foo"),
             Obj([f \in {"ref"} |-> Str("v1")]), Obj([f \in {"ref"} |-> Num(1)])}
      [] k = "inputs" -> {Str("detect"), List(<<Str("a"), Str(" b ")>>)}
      [] OTHER -> {Num(1)}

RECURSIVE ObjectsOver(_)
ObjectsOver(S) ==
    IF S = {} THEN {EmptyFields}
    ELSE LET k == CHOOSE x \in S : TRUE
         IN  {Merge([f \in {k} |-> v], o) : v \in Vals(k), o \in ObjectsOver(S \ {k})}

RECURSIVE KeySets(_, _)
KeySets(S, n) ==
    IF n = 0 \/ S = {} THEN {{}}
    ELSE LET k == CHOOSE x \in S : TRUE
         IN  KeySets(S \ {k}, n) \cup {T \cup {k} : T \in KeySets(S \ {k}, n - 1)}

\* the documents handed to Step.UnmarshalJSON are the objects over every set of
\* at most MaxKeys keys, and three documents that are not objects
DocKeySets == KeySets(TopKeys, MaxKeys)
NonObjects == {Null, Str("x"), List(<<>>)}

\* a Step that already holds a config when UnmarshalJSON is called on it
PriorStep == [Config |-> [New("GetStep") EXCEPT !.f["get"] = Str("prior")]]

(***************************************************************************)
(* FakeCreatedContainer: its mutexes and call records                      *)
(***************************************************************************)
\* the recording methods, in the order in which Invocations() takes their
\* mutexes
Methods ==
    <<"ID", "Handle", "Discontinue", "Destroying", "WorkerName", "IsHijacked",
      "MarkAsHijacked">>
MethodNames == {Methods[i] : i \in 1..Len(Methods)}

\* the mutexes Invocations() read-locks, in order: invocationsMutex, then the
\* mutex of every recording method (each named here after its method)
InvocationsOrder == <<"invocations">> \o Methods
MutexNames == MethodNames \cup {"invocations"}

\* the goroutines that share the fake
Goroutines == {"g1", "g2"}
NoGoroutine == "none"

\* a sync.RWMutex: w is the goroutine that called Lock and has not yet called
\* Unlock (from then on RLock blocks), r the goroutines holding it for reading
FreeMutex == [w |-> NoGoroutine, r |-> {}]

\* a goroutine outside any call on the fake
IdleGoroutine == [pc |-> "idle", call |-> "none", k |-> 0]

\* new(FakeCreatedContainer), no call started
FakeIdle ==
    /\ gor = [g \in Goroutines |-> IdleGoroutine]
    /\ mutex = [m \in MutexNames |-> FreeMutex]
    /\ argsForCall = [m \in MethodNames |-> 0]
    /\ invocations = [m \in MethodNames |-> 0]
    /\ started = 0

(***************************************************************************)
(* Step.UnmarshalJSON and Step.MarshalJSON on one Step value               *)
(***************************************************************************)
SelIdle ==
    /\ vc = ZeroVersionConfig
    /\ vcIn = Null
    /\ vcErr = FALSE
    /\ vcFresh = FALSE
    /\ vcOut = Null
    /\ ic = ZeroInputsConfig
    /\ icIn = Null
    /\ icErr = FALSE
    /\ icFresh = FALSE
    /\ icOut = Null

Init ==
    /\ \/ \E S \in DocKeySets : \E o \in ObjectsOver(S) : data = Obj(o)
       \/ data \in NonObjects
    /\ step \in {[Config |-> NilStep], PriorStep}
    /\ before = step
    /\ err = NoError
    /\ trace = <<>>
    /\ out = Null
    /\ pc = "call"
    /\ SelIdle
    /\ FakeIdle

\* json.Unmarshal(data, &step)
CallUnmarshal ==
    /\ pc = "call"
    /\ LET r == UnmarshalJSON(step, data)
       IN  /\ step' = [Config |-> r.Config]
           /\ err' = r.err
           /\ trace' = r.trace
    /\ pc' = "returned"
    /\ UNCHANGED <<data, before, out>>
    /\ UNCHANGED selVars
    /\ UNCHANGED fakeVars

\* json.Marshal(step)
CallMarshal ==
    /\ pc = "returned"
    /\ out' = MarshalJSON(step)
    /\ pc' = "marshalled"
    /\ UNCHANGED <<data, step, before, err, trace>>
    /\ UNCHANGED selVars
    /\ UNCHANGED fakeVars

Next == CallUnmarshal \/ CallMarshal

Spec == Init /\ [][Next]_vars

(***************************************************************************)
(* VersionConfig and InputsConfig values: built in code, unmarshalled      *)
(* into, marshalled                                                        *)
(***************************************************************************)
PinnedV1 == Obj([f \in {"ref"} |-> Str("v1")])
PinnedEmpty == Obj(EmptyFields)
NamesAB == List(<<Str("a"), Str("b")>>)

\* the VersionConfig and InputsConfig values a struct literal can build
VersionConfigs ==
    [Every : BOOLEAN, Latest : BOOLEAN, Pinned : {Null, PinnedV1, PinnedEmpty}]
InputsConfigs ==
    [All : BOOLEAN, Detect : BOOLEAN, Specified : {Null, NamesAB, List(<<>>)}]

\* the bytes handed to VersionConfig.UnmarshalJSON
VersionBytes ==
    {Str("latest"), Str("every"), Str("foo"), Str(""), PinnedV1, PinnedEmpty,
     Obj([f \in {"ref"} |-> Num(1)]), Num(1), List(<<>>), Null}

\* the bytes handed to InputsConfig.UnmarshalJSON
InputsBytes ==
    {Str("all"), Str("detect"), Str("foo"), Str(""), NamesAB, List(<<>>),
     List(<<Str("a"), Str(" b ")>>), List(<<Num(1)>>), Num(1), PinnedV1, Null}

StepIdle ==
    /\ data = Null
    /\ step = [Config |-> NilStep]
    /\ before = step
    /\ err = NoError
    /\ trace = <<>>
    /\ out = Null
    /\ pc = "idle"

SelInit == StepIdle /\ SelIdle /\ FakeIdle

\* vc := VersionConfig{...}
BuildVersion ==
    /\ vc' \in VersionConfigs
    /\ vcIn' = Null
    /\ vcErr' = FALSE
    /\ vcFresh' = FALSE
    /\ vcOut' = Null
    /\ UNCHANGED inputsVars
    /\ UNCHANGED stepVars
    /\ UNCHANGED fakeVars

\* json.Unmarshal(version, &vc)
UnmarshalVersion ==
    /\ \E version \in VersionBytes :
          LET r == VersionUnmarshalJSON(vc, version)
          IN  /\ vc' = r.val
              /\ vcErr' = ~r.ok
              /\ vcIn' = version
    /\ vcFresh' = (vc = ZeroVersionConfig)
    /\ vcOut' = Null
    /\ UNCHANGED inputsVars
    /\ UNCHANGED stepVars
    /\ UNCHANGED fakeVars

\* json.Marshal(&vc)
MarshalVersion ==
    /\ vcOut' = VersionMarshalJSON(vc)
    /\ UNCHANGED <<vc, vcIn, vcErr, vcFresh>>
    /\ UNCHANGED inputsVars
    /\ UNCHANGED stepVars
    /\ UNCHANGED fakeVars

\* ic := InputsConfig{...}
BuildInputs ==
    /\ ic' \in InputsConfigs
    /\ icIn' = Null
    /\ icErr' = FALSE
    /\ icFresh' = FALSE
    /\ icOut' = Null
    /\ UNCHANGED versionVars
    /\ UNCHANGED stepVars
    /\ UNCHANGED fakeVars

\* json.Unmarshal(inputs, &ic)
UnmarshalInputs ==
    /\ \E inputs \in InputsBytes :
          LET r == InputsUnmarshalJSON(ic, inputs)
          IN  /\ ic' = r.val
              /\ icErr' = ~r.ok
              /\ icIn' = inputs
    /\ icFresh' = (ic = ZeroInputsConfig)
    /\ icOut' = Null
    /\ UNCHANGED versionVars
    /\ UNCHANGED stepVars
    /\ UNCHANGED fakeVars

\* json.Marshal(ic)
MarshalInputs ==
    /\ icOut' = InputsMarshalJSON(ic)
    /\ UNCHANGED <<ic, icIn, icErr, icFresh>>
    /\ UNCHANGED versionVars
    /\ UNCHANGED stepVars
    /\ UNCHANGED fakeVars

SelNext ==
    \/ BuildVersion
    \/ UnmarshalVersion
    \/ MarshalVersion
    \/ BuildInputs
    \/ UnmarshalInputs
    \/ MarshalInputs

SelSpec == SelInit /\ [][SelNext]_vars

(***************************************************************************)
(* Step values built in code from struct literals, then marshalled         *)
(***************************************************************************)
\* the largest number of layers of a chain built in code
MaxLayers == 3

\* &TimeoutStep{Duration: d}, &RetryStep{Attempts: n}
TimeoutLiteral(d) == [New("TimeoutStep") EXCEPT !.f["timeout"] = Str(d)]
RetryLiteral(n) == [New("RetryStep") EXCEPT !.f["attempts"] = Num(n)]

\* the modifier literals, their Step field still nil
ModifierLiterals ==
    {TimeoutLiteral("1m"), TimeoutLiteral("2m"), RetryLiteral(1), RetryLiteral(2)}

\* &GetStep{Name: "x"}, &TaskStep{Name: "t"}
CoreLiterals ==
    {[New("GetStep") EXCEPT !.f["get"] = Str("x")],
     [New("TaskStep") EXCEPT !.f["task"] = Str("t")]}

RECURSIVE Depth(_)
Depth(cfg) == IF cfg = NilStep THEN 0 ELSE 1 + Depth(Unwrap(cfg))

BuildInit ==
    /\ data = Null
    /\ step = [Config |-> NilStep]
    /\ before = step
    /\ err = NoError
    /\ trace = <<>>
    /\ out = Null
    /\ pc = "build"
    /\ SelIdle
    /\ FakeIdle

\* step.Config = &GetStep{...}, or a modifier literal with a nil Step
BuildInner ==
    /\ pc = "build"
    /\ step.Config = NilStep
    /\ \E c \in CoreLiterals \cup ModifierLiterals : step' = [Config |-> c]
    /\ UNCHANGED <<data, before, err, trace, out, pc>>
    /\ UNCHANGED selVars
    /\ UNCHANGED fakeVars

\* step.Config = &TimeoutStep{Step: step.Config, ...}: one more modifier
\* around the chain, of any kind, a kind already in the chain included
BuildOuter ==
    /\ pc = "build"
    /\ step.Config # NilStep
    /\ Depth(step.Config) < MaxLayers
    /\ \E m \in ModifierLiterals :
          step' = [Config |-> [m EXCEPT !.Step = step.Config]]
    /\ UNCHANGED <<data, before, err, trace, out, pc>>
    /\ UNCHANGED selVars
    /\ UNCHANGED fakeVars

\* json.Marshal(step) of the chain built so far
MarshalBuilt ==
    /\ pc = "build"
    /\ out' = MarshalJSON(step)
    /\ pc' = "encoded"
    /\ UNCHANGED <<data, step, before, err, trace>>
    /\ UNCHANGED selVars
    /\ UNCHANGED fakeVars

BuildNext == BuildInner \/ BuildOuter \/ MarshalBuilt

BuildSpec == BuildInit /\ [][BuildNext]_vars

(***************************************************************************)
(* Goroutines calling one shared FakeCreatedContainer                      *)
(***************************************************************************)
\* the largest number of calls started on the fake
MaxCalls == 3

FakeInit == StepIdle /\ SelIdle /\ FakeIdle

\* m.Lock() is taken in two steps: the caller first shuts out other writers and
\* new readers, then waits until the readers that hold m have left
LockAnnounce(g, m) ==
    /\ mutex[m].w = NoGoroutine
    /\ mutex' = [mutex EXCEPT ![m].w = g]
LockEntered(g, m) == mutex[m].w = g /\ mutex[m].r = {}
Unlock(g, m) == mutex' = [mutex EXCEPT ![m].w = NoGoroutine]
\* m.RLock() waits while a writer holds m or waits for it
RLock(g, m) ==
    /\ mutex[m].w = NoGoroutine
    /\ mutex' = [mutex EXCEPT ![m].r = @ \cup {g}]
RUnlock(g, m) == mutex' = [mutex EXCEPT ![m].r = @ \ {g}]

Goto(g, label) == gor' = [gor EXCEPT ![g].pc = label]
FakeRest == UNCHANGED <<stepVars, selVars>>

\* a goroutine calls fake.ID(), fake.Handle(), ...
CallRecording(g, m) ==
    /\ gor[g].pc = "idle"
    /\ started < MaxCalls
    /\ started' = started + 1
    /\ gor' = [gor EXCEPT ![g] = [pc |-> "Lock", call |-> m, k |-> 0]]
    /\ UNCHANGED <<mutex, argsForCall, invocations>>
    /\ FakeRest

\* fake.iDMutex.Lock(), called
MethodLock(g) ==
    /\ gor[g].pc = "Lock"
    /\ LockAnnounce(g, gor[g].call)
    /\ Goto(g, "LockWait")
    /\ UNCHANGED <<argsForCall, invocations, started>>
    /\ FakeRest

\* fake.iDMutex.Lock(), returned
MethodLocked(g) ==
    /\ gor[g].pc = "LockWait"
    /\ LockEntered(g, gor[g].call)
    /\ Goto(g, "append")
    /\ UNCHANGED <<mutex, argsForCall, invocations, started>>
    /\ FakeRest

\* fake.iDArgsForCall = append(fake.iDArgsForCall, struct{}{})
AppendArgs(g) ==
    /\ gor[g].pc = "append"
    /\ argsForCall' = [argsForCall EXCEPT ![gor[g].call] = @ + 1]
    /\ Goto(g, "recordLock")
    /\ UNCHANGED <<mutex, invocations, started>>
    /\ FakeRest

\* recordInvocation: fake.invocationsMutex.Lock(), called
RecordLock(g) ==
    /\ gor[g].pc = "recordLock"
    /\ LockAnnounce(g, "invocations")
    /\ Goto(g, "recordLockWait")
    /\ UNCHANGED <<argsForCall, invocations, started>>
    /\ FakeRest

\* recordInvocation: fake.invocationsMutex.Lock(), returned
RecordLocked(g) ==
    /\ gor[g].pc = "recordLockWait"
    /\ LockEntered(g, "invocations")
    /\ Goto(g, "record")
    /\ UNCHANGED <<mutex, argsForCall, invocations, started>>
    /\ FakeRest

\* recordInvocation: fake.invocations[key] = append(fake.invocations[key], args)
RecordAppend(g) ==
    /\ gor[g].pc = "record"
    /\ invocations' = [invocations EXCEPT ![gor[g].call] = @ + 1]
    /\ Goto(g, "recordUnlock")
    /\ UNCHANGED <<mutex, argsForCall, started>>
    /\ FakeRest

\* recordInvocation returns: the deferred fake.invocationsMutex.Unlock()
RecordUnlock(g) ==
    /\ gor[g].pc = "recordUnlock"
    /\ Unlock(g, "invocations")
    /\ Goto(g, "Unlock")
    /\ UNCHANGED <<argsForCall, invocations, started>>
    /\ FakeRest

\* fake.iDMutex.Unlock()
MethodUnlock(g) ==
    /\ gor[g].pc = "Unlock"
    /\ Unlock(g, gor[g].call)
    /\ Goto(g, "return")
    /\ UNCHANGED <<argsForCall, invocations, started>>
    /\ FakeRest

\* a goroutine calls fake.Invocations()
CallInvocations(g) ==
    /\ gor[g].pc = "idle"
    /\ started < MaxCalls
    /\ started' = started + 1
    /\ gor' = [gor EXCEPT ![g] = [pc |-> "RLock", call |-> "Invocations", k |-> 0]]
    /\ UNCHANGED <<mutex, argsForCall, invocations>>
    /\ FakeRest

\* Invocations(): the next RLock, invocationsMutex first, then the mutex of
\* each recording method; k mutexes are read-locked so far
InvocationsRLock(g) ==
    /\ gor[g].pc = "RLock"
    /\ RLock(g, InvocationsOrder[gor[g].k + 1])
    /\ gor' = [gor EXCEPT ![g].k = @ + 1,
                          ![g].pc = IF gor[g].k + 1 = Len(InvocationsOrder)
                                    THEN "RUnlock" ELSE "RLock"]
    /\ UNCHANGED <<argsForCall, invocations, started>>
    /\ FakeRest

\* Invocations() returns: the deferred RUnlocks, last deferred first
InvocationsRUnlock(g) ==
    /\ gor[g].pc = "RUnlock"
    /\ RUnlock(g, InvocationsOrder[gor[g].k])
    /\ gor' = [gor EXCEPT ![g].k = @ - 1,
                          ![g].pc = IF gor[g].k = 1 THEN "return" ELSE "RUnlock"]
    /\ UNCHANGED <<argsForCall, invocations, started>>
    /\ FakeRest

\* the call returns to its caller
Return(g) ==
    /\ gor[g].pc = "return"
    /\ gor' = [gor EXCEPT ![g] = IdleGoroutine]
    /\ UNCHANGED <<mutex, argsForCall, invocations, started>>
    /\ FakeRest

FakeNext ==
    \E g \in Goroutines :
        \/ \E m \in MethodNames : CallRecording(g, m)
        \/ MethodLock(g)
        \/ MethodLocked(g)
        \/ AppendArgs(g)
        \/ RecordLock(g)
        \/ RecordLocked(g)
        \/ RecordAppend(g)
        \/ RecordUnlock(g)
        \/ MethodUnlock(g)
        \/ CallInvocations(g)
        \/ InvocationsRLock(g)
        \/ InvocationsRUnlock(g)
        \/ Return(g)

FakeSpec == FakeInit /\ [][FakeNext]_vars

(***************************************************************************)
(* Vocabulary of the properties                                            *)
(***************************************************************************)
\* the step types of a chain, outer to inner, read by repeated Unwrap
RECURSIVE ChainKinds(_)
ChainKinds(cfg) ==
    IF cfg = NilStep THEN <<>> ELSE <<cfg.kind>> \o ChainKinds(Unwrap(cfg))

Returned == pc \in {"returned", "marshalled"}
Decoded == Returned /\ err = NoError
DataKeys == IF data.t = "obj" THEN DOMAIN data.o ELSE {}
CoresPresent == DataKeys \cap CoreKeys
ModifiersPresent == DataKeys \cap ModifierKeys
FirstOf(S) == CHOOSE k \in S : \A j \in S : KeyIndex(k) <= KeyIndex(j)
LastOf(S) == CHOOSE k \in S : \A j \in S : KeyIndex(j) <= KeyIndex(k)

\* A well-formed value of a field of Go type ty; with canon, moreover one that
\* json.Marshal writes back as it is: no empty value in an omitempty field
\* (oe), selector strings that name a tag, trimmed input names, in_parallel
\* in its object form.
RECURSIVE WellFormedValue(_, _, _, _)
RECURSIVE WellFormedDoc(_, _)
WellFormedValue(ty, oe, v, canon) ==
    CASE ty = "string" -> v.t = "str" /\ (canon /\ oe => v.s # "")
      [] ty = "bool" -> v.t = "bool" /\ (canon /\ oe => v.b)
      [] ty = "int" -> v.t = "num" /\ (canon /\ oe => v.n # 0)
      [] ty = "strlist" ->
            /\ v.t = "list"
            /\ \A i \in 1..Len(v.l) : v.l[i].t = "str"
            /\ canon /\ oe => Len(v.l) > 0
      [] ty = "strmap" ->
            /\ v.t = "obj"
            /\ \A k \in DOMAIN v.o : v.o[k].t = "str"
            /\ canon /\ oe => DOMAIN v.o # {}
      [] ty = "params" -> v.t = "obj" /\ (canon /\ oe => DOMAIN v.o # {})
      [] ty = "version" ->
            \/ v \in {Str(VersionLatest), Str(VersionEvery)}
            \/ v.t = "obj" /\ \A k \in DOMAIN v.o : v.o[k].t = "str"
      [] ty = "inputs" ->
            \/ v \in {Str(InputsAll), Str(InputsDetect)}
            \/ /\ v.t = "list"
               /\ \A i \in 1..Len(v.l) :
                     v.l[i].t = "str" /\ (canon => TrimSpace(v.l[i].s) = v.l[i].s)
      [] ty = "step" -> WellFormedDoc(v, canon)
      [] ty = "steps" ->
            v.t = "list" /\ \A i \in 1..Len(v.l) : WellFormedDoc(v.l[i], canon)
      [] ty = "inparallel" ->
            \/ /\ v.t = "list"
               /\ ~canon
               /\ \A i \in 1..Len(v.l) : WellFormedDoc(v.l[i], canon)
            \/ /\ v.t = "obj"
               /\ DOMAIN v.o \subseteq {"steps", "limit", "fail_fast"}
               /\ "steps" \in DOMAIN v.o =>
                     WellFormedValue("steps", TRUE, v.o["steps"], canon)
                     /\ (canon => Len(v.o["steps"].l) > 0)
               /\ "limit" \in DOMAIN v.o =>
                     WellFormedValue("int", TRUE, v.o["limit"], canon)
               /\ "fail_fast" \in DOMAIN v.o =>
                     WellFormedValue("bool", TRUE, v.o["fail_fast"], canon)
      [] OTHER -> FALSE

\* A well-formed value of the modifier key k
ModifierValueOK(k, v, canon) ==
    WellFormedValue(TypeOf[KindOfKey(k)][k], FALSE, v, canon)

\* A well-formed step document: an object with exactly one core-step key, whose
\* other keys are fields of that core step or modifier keys, every value
\* well-formed for its field.
WellFormedDoc(d, canon) ==
    /\ d.t = "obj"
    /\ Cardinality(DOMAIN d.o \cap CoreKeys) = 1
    /\ LET core == KindOfKey(CHOOSE k \in DOMAIN d.o \cap CoreKeys : TRUE)
       IN  \A k \in DOMAIN d.o :
              \/ k \in ModifierKeys /\ ModifierValueOK(k, d.o[k], canon)
              \/ /\ k \in DOMAIN TypeOf[core]
                 /\ WellFormedValue(TypeOf[core][k], OmitEmpty[core][k], d.o[k], canon)

Doc1(k, v) == Obj([f \in {k} |-> v])
Doc2(k1, v1, k2, v2) == Obj([f \in {k1, k2} |-> IF f = k1 THEN v1 ELSE v2])
Doc3(k1, v1, k2, v2, k3, v3) ==
    Obj([f \in {k1, k2, k3} |-> IF f = k1 THEN v1 ELSE IF f = k2 THEN v2 ELSE v3])

(***************************************************************************)
(* C1                                                                      *)
(***************************************************************************)
\* C1 as stated: a successfully decoded Step holds zero or more modifiers and
\* exactly one core variant, at the bottom of the chain, and a document with
\* no core-step key is never decoded successfully.
C1_ChainEndsInCore ==
    Decoded =>
        LET ks == ChainKinds(step.Config)
        IN  /\ Len(ks) >= 1
            /\ ks[Len(ks)] \in CoreKinds
            /\ \A i \in 1..(Len(ks) - 1) : ks[i] \in ModifierKinds
            /\ CoresPresent # {}

\* C1 as amended: a successfully decoded Step holds a non-empty chain in which
\* every variant above the bottom one is a modifier; the bottom one is a core
\* variant exactly when the document has a core-step key (a document of
\* modifier keys only decodes to modifiers and no core step); a document with
\* no StepPrecedence key is never decoded successfully.
C1_ChainOfModifiersThenCoreIfAny ==
    Decoded =>
        LET ks == ChainKinds(step.Config)
        IN  /\ Len(ks) >= 1
            /\ \A i \in 1..(Len(ks) - 1) : ks[i] \in ModifierKinds
            /\ ks[Len(ks)] \in CoreKinds <=> CoresPresent # {}
            /\ DataKeys \cap PrecedenceKeys # {}

C1_Witness ==
    /\ pc = "returned"
    /\ err = NoError
    /\ ChainKinds(step.Config) = <<"EnsureStep", "TimeoutStep", "TaskStep">>

(***************************************************************************)
(* C2                                                                      *)
(***************************************************************************)
\* C2: in a successfully decoded chain the variants, outer to inner, are in
\* the order of their keys in StepPrecedence; attempts, timeout and get give
\* retry wrapping timeout wrapping get.
C2_ChainFollowsPrecedence ==
    Decoded =>
        LET ks == ChainKinds(step.Config)
        IN  /\ \A i, j \in 1..Len(ks) :
                  i < j => KeyIndex(KeyOfKind(ks[i])) < KeyIndex(KeyOfKind(ks[j]))
            /\ DataKeys = {"attempts", "timeout", "get"} =>
                  ks = <<"RetryStep", "TimeoutStep", "GetStep">>

C2_Witness ==
    /\ pc = "returned"
    /\ err = NoError
    /\ data = Doc3("attempts", Num(3), "timeout", Str("5m"), "get", Str("x"))
    /\ step.Config.kind = "RetryStep"
    /\ step.Config.Step.kind = "TimeoutStep"
    /\ step.Config.Step.Step.kind = "GetStep"

(***************************************************************************)
(* C3                                                                      *)
(***************************************************************************)
\* C3 as stated: for every well-formed step document, in_parallel given as a
\* plain list included, MarshalJSON of the decoded Step gives back a document
\* with the same key/value pairs.
C3_RoundTrip ==
    pc = "marshalled" /\ err = NoError /\ WellFormedDoc(data, FALSE) => out = data

\* C3 as amended: the marshalled document has the same key/value pairs as x
\* for every well-formed x that is in the form json.Marshal writes (in_parallel
\* as an object with a non-empty "steps", trimmed input names, no empty value
\* in an omitempty field); for every x that decodes, the marshalled document
\* decodes again and marshals to itself (in_parallel given as a plain list
\* comes back as {"in_parallel": {"steps": [...]}}).
C3_RoundTripOfMarshalledForm ==
    pc = "marshalled" /\ err = NoError =>
        /\ WellFormedDoc(data, TRUE) => out = data
        /\ LET again == UnmarshalJSON([Config |-> NilStep], out)
           IN  /\ again.err = NoError
               /\ MarshalJSON([Config |-> again.Config]) = out
        /\ data = Doc1("in_parallel", OneStep) =>
              out = Doc1("in_parallel", Doc1("steps", OneStep))

C3_Witness ==
    /\ pc = "marshalled"
    /\ err = NoError
    /\ WellFormedDoc(data, TRUE)
    /\ {"in_parallel", "ensure", "attempts"} \subseteq DataKeys
    /\ out = data

(***************************************************************************)
(* C4                                                                      *)
(***************************************************************************)
\* C4: a document of one well-formed core step (only fields of that step) and
\* any well-formed modifier keys decodes successfully: every modifier and the
\* core step are parsed and none fails on the keys of the others.
C4_ModifiersAndCoreTolerated ==
    Returned /\ WellFormedDoc(data, FALSE) =>
        /\ err = NoError
        /\ \A k \in DataKeys \cap PrecedenceKeys :
              \E i \in 1..Len(trace) : trace[i].op = "ParseJSON" /\ trace[i].key = k

C4_Witness ==
    /\ pc = "returned"
    /\ data = Doc2("get", Str("x"), "timeout", Str("5m"))
    /\ err = NoError
    /\ step.Config.kind = "TimeoutStep"
    /\ step.Config.f["timeout"] = Str("5m")
    /\ step.Config.Step.kind = "GetStep"

C6_SecondCoreRejects ==
    Returned /\ Cardinality(CoresPresent) = 2 =>
        err = MalformedStepError(LastOf(CoresPresent))

\* C6 as amended: a document with two core-step keys always fails with
\* MalformedStepError, and never at the later core key: the core step that
\* StepPrecedence lists first is parsed first and its strict parse rejects the
\* other core key, so the error names the earlier key ("put" for
\* {"get":"x","put":"y"}), unless a modifier key of the document, parsed before
\* any core step, has a malformed value and is named instead.
C6_FirstCoreRejects ==
    Returned /\ Cardinality(CoresPresent) = 2 =>
        LET badMods == {k \in ModifiersPresent : ~ModifierValueOK(k, data.o[k], FALSE)}
        IN  /\ err.kind = "malformed"
            /\ badMods = {} => err.StepType = FirstOf(CoresPresent)
            /\ badMods # {} => err.StepType = FirstOf(badMods)
            /\ data = Doc2("get", Str("x"), "put", Str("y")) => err.StepType = "put"

C6_Witness ==
    /\ pc = "returned"
    /\ data = Doc2("get", Str("x"), "put", Str("y"))
    /\ err = MalformedStepError("put")
    /\ Len(trace) = 1

(***************************************************************************)
(* C7                                                                      *)
(***************************************************************************)
\* C7: for an object-shaped document UnmarshalJSON returns ErrNoStepConfigured
\* exactly when no StepPrecedence key is in the document, and then no variant
\* was parsed.
C7_NoStepIffNoKey ==
    Returned /\ data.t = "obj" =>
        /\ err = ErrNoStepConfigured <=> DataKeys \cap PrecedenceKeys = {}
        /\ err = ErrNoStepConfigured => trace = <<>>

C7_Witness ==
    /\ pc = "returned"
    /\ data = Doc1("bogus_field", Num(1))
    /\ err = ErrNoStepConfigured

(***************************************************************************)
(* C8                                                                      *)
(***************************************************************************)
\* C8: when UnmarshalJSON fails the receiver is as it was before the call, and
\* nothing is parsed or wrapped after the failure: a MalformedStepError's key
\* is the last one handed to ParseJSON, the other errors come with no variant
\* parsed.
C8_FailureAbortsAndKeepsReceiver ==
    Returned /\ err # NoError =>
        /\ step = before
        /\ err.kind = "malformed" =>
              /\ Len(trace) >= 1
              /\ trace[Len(trace)].op = "ParseJSON"
              /\ trace[Len(trace)].key = err.StepType
              /\ \A i \in 1..Len(trace) :
                    KeyIndex(trace[i].key) <= KeyIndex(err.StepType)
        /\ err.kind # "malformed" => trace = <<>>

C8_Witness ==
    /\ pc = "returned"
    /\ before = PriorStep
    /\ step = PriorStep
    /\ err = MalformedStepError("get")
    /\ Len(trace) = 4

(***************************************************************************)
(* C9                                                                      *)
(***************************************************************************)
ActiveVersionTags(c) ==
    (IF c.Every THEN {"Every"} ELSE {}) \cup (IF c.Latest THEN {"Latest"} ELSE {})
    \cup (IF c.Pinned # Null THEN {"Pinned"} ELSE {})

ActiveInputsTags(c) ==
    (IF c.All THEN {"All"} ELSE {}) \cup (IF c.Detect THEN {"Detect"} ELSE {})
    \cup (IF c.Specified # Null THEN {"Specified"} ELSE {})

\* C9: after a successful UnmarshalJSON into a zero VersionConfig exactly one
\* of Every, Latest, Pinned is active, and after a successful UnmarshalJSON
\* into a zero InputsConfig exactly one of All, Detect, Specified is active.
C9_ExactlyOneTagActive ==
    /\ vcIn # Null /\ ~vcErr /\ vcFresh => Cardinality(ActiveVersionTags(vc)) = 1
    /\ icIn # Null /\ ~icErr /\ icFresh => Cardinality(ActiveInputsTags(ic)) = 1

(***************************************************************************)
(* C10                                                                     *)
(***************************************************************************)
\* C10: VersionConfig.MarshalJSON gives "latest" if Latest, else "every" if
\* Every, else the pinned map if Pinned is not nil, else ""; InputsConfig's
\* gives "all" if All, else "detect" if Detect, else the list if Specified is
\* not nil, else ""; "latest", "every" or a pinned map unmarshalled (the map
\* into a zero VersionConfig) and marshalled again comes back as it was.
C10_MarshalByPriority ==
    /\ vcOut # Null =>
          /\ vc.Latest => vcOut = Str("latest")
          /\ ~vc.Latest /\ vc.Every => vcOut = Str("every")
          /\ ~vc.Latest /\ ~vc.Every /\ vc.Pinned # Null => vcOut = vc.Pinned
          /\ ~vc.Latest /\ ~vc.Every /\ vc.Pinned = Null => vcOut = Str("")
          /\ ~vcErr /\ vcIn \in {Str("latest"), Str("every")} => vcOut = vcIn
          /\ ~vcErr /\ vcFresh /\ vcIn.t = "obj" => vcOut = vcIn
    /\ icOut # Null =>
          /\ ic.All => icOut = Str("all")
          /\ ~ic.All /\ ic.Detect => icOut = Str("detect")
          /\ ~ic.All /\ ~ic.Detect /\ ic.Specified # Null => icOut = ic.Specified
          /\ ~ic.All /\ ~ic.Detect /\ ic.Specified = Null => icOut = Str("")

C10_Witness ==
    /\ vcIn = PinnedV1
    /\ ~vcErr
    /\ vcFresh
    /\ vcOut = PinnedV1
    /\ ic.All
    /\ ic.Detect
    /\ ic.Specified # Null
    /\ icOut = Str("all")

(***************************************************************************)
(* C11                                                                     *)
(***************************************************************************)
\* the keys handed to ParseJSON before the i-th call recorded in the trace
ParsedBefore(i) ==
    {trace[j].key : j \in {n \in 1..(i - 1) : trace[n].op = "ParseJSON"}}

\* C11 as stated: every ParseJSON of one UnmarshalJSON call is handed the
\* original document passed to the call, never the reduced one.
C11_ParseOnOriginalBytes ==
    Returned =>
        \A i \in 1..Len(trace) : trace[i].op = "ParseJSON" => trace[i].data = data

\* C11 as amended: only the first matched variant's ParseJSON is handed the
\* original document; every later one is handed the re-marshalled reduced
\* mapping, that is the original document without the keys of the variants
\* parsed before it, so the removal of a matched key changes what the later
\* variants parse and not only the presence test.
C11_ParseOnReducedDocument ==
    Returned =>
        \A i \in 1..Len(trace) :
            trace[i].op = "ParseJSON" =>
                /\ trace[i].data =
                      Obj(Restrict(data.o, DOMAIN data.o \ ParsedBefore(i)))
                /\ trace[i].data = data <=> ParsedBefore(i) = {}

C11_Witness ==
    /\ pc = "returned"
    /\ err = NoError
    /\ data = Doc3("attempts", Num(3), "timeout", Str("5m"), "get", Str("x"))
    /\ Len(trace) = 5
    /\ trace[1] = [op |-> "ParseJSON", key |-> "attempts", data |-> data]
    /\ trace[2] = [op |-> "ParseJSON", key |-> "timeout",
                   data |-> Doc2("timeout", Str("5m"), "get", Str("x"))]
    /\ trace[4] = [op |-> "ParseJSON", key |-> "get",
                   data |-> Doc1("get", Str("x"))]

(***************************************************************************)
(* C12                                                                     *)
(***************************************************************************)
\* C12: in every UnmarshalJSON call, failing ones included, each Wrap call
\* ends on a modifier and never on a core variant, whose Wrap would drop its
\* argument; on success the chain holds exactly one variant for each
\* StepPrecedence key of the document, and every parsed variant but the first
\* was wrapped.
C12_NoParsedVariantDropped ==
    Returned =>
        /\ \A i \in 1..Len(trace) :
              trace[i].op = "Wrap" => trace[i].target \in ModifierKinds
        /\ err = NoError =>
              LET ks == ChainKinds(step.Config)
                  present == DataKeys \cap PrecedenceKeys
              IN  /\ Len(ks) = Cardinality(present)
                  /\ {KeyOfKind(ks[i]) : i \in 1..Len(ks)} = present
                  /\ Cardinality({i \in 1..Len(trace) : trace[i].op = "Wrap"})
                        = Cardinality(present) - 1

C12_Witness ==
    /\ pc = "returned"
    /\ err = NoError
    /\ data = Doc3("ensure", LeafGet, "timeout", Str("5m"), "get", Str("x"))
    /\ ChainKinds(step.Config) = <<"EnsureStep", "TimeoutStep", "GetStep">>
    /\ trace[3] = [op |-> "Wrap", key |-> "timeout", target |-> "EnsureStep"]
    /\ trace[5] = [op |-> "Wrap", key |-> "get", target |-> "TimeoutStep"]

(***************************************************************************)
(* C13                                                                     *)
(***************************************************************************)
\* what json.Marshal writes for each layer of a chain, outer to inner
RECURSIVE LayerPayloads(_)
LayerPayloads(cfg) ==
    IF cfg = NilStep THEN <<>>
    ELSE <<MarshalStruct(cfg)>> \o LayerPayloads(Unwrap(cfg))

LayersWith(ps, k) == {i \in 1..Len(ps) : k \in DOMAIN ps[i]}
Outermost(S) == CHOOSE i \in S : \A j \in S : i <= j
Innermost(S) == CHOOSE i \in S : \A j \in S : j <= i

\* C13 as stated: the marshalled document is the union of the layers' fields
\* and a field written by an outer layer is not overridden by an inner layer's
\* field of the same name, for any chain, one with two layers of the same
\* modifier kind included.
C13_OuterFieldKept ==
    pc = "encoded" =>
        LET ps == LayerPayloads(step.Config)
        IN  /\ DOMAIN out.o = UNION {DOMAIN ps[i] : i \in 1..Len(ps)}
            /\ \A k \in DOMAIN out.o : out.o[k] = ps[Outermost(LayersWith(ps, k))][k]

\* C13 as amended: the marshalled document is the union of the layers' fields
\* in which a field written by an outer layer IS overridden by an inner
\* layer's field of the same name (the innermost layer that has the field
\* gives its value); when the layers of the chain are of pairwise different
\* kinds no field is written twice and the union is disjoint.
C13_InnerFieldOverrides ==
    pc = "encoded" =>
        LET ps == LayerPayloads(step.Config)
            ks == ChainKinds(step.Config)
        IN  /\ DOMAIN out.o = UNION {DOMAIN ps[i] : i \in 1..Len(ps)}
            /\ \A k \in DOMAIN out.o : out.o[k] = ps[Innermost(LayersWith(ps, k))][k]
            /\ (\A i, j \in 1..Len(ks) : i # j => ks[i] # ks[j]) =>
                  \A k \in DOMAIN out.o : Cardinality(LayersWith(ps, k)) = 1

C13_Witness ==
    /\ pc = "encoded"
    /\ ChainKinds(step.Config) = <<"TimeoutStep", "TimeoutStep", "GetStep">>
    /\ step.Config.f["timeout"] = Str("1m")
    /\ step.Config.Step.f["timeout"] = Str("2m")
    /\ out = Doc2("timeout", Str("2m"), "get", Str("x"))

(***************************************************************************)
(* C14                                                                     *)
(***************************************************************************)
\* the mutex goroutine g is blocked on, "none" if g can take its next step
BlockedOn(g) ==
    CASE gor[g].pc = "Lock" /\ mutex[gor[g].call].w # NoGoroutine -> gor[g].call
      [] gor[g].pc = "LockWait" /\ mutex[gor[g].call].r # {} -> gor[g].call
      [] gor[g].pc = "recordLock" /\ mutex["invocations"].w # NoGoroutine ->
            "invocations"
      [] gor[g].pc = "recordLockWait" /\ mutex["invocations"].r # {} ->
            "invocations"
      [] gor[g].pc = "RLock"
         /\ mutex[InvocationsOrder[gor[g].k + 1]].w # NoGoroutine ->
            InvocationsOrder[gor[g].k + 1]
      [] OTHER -> "none"

Holds(h, m) == mutex[m].w = h \/ h \in mutex[m].r

\* g waits for a lock that h holds
WaitsFor(g, h) == BlockedOn(g) # "none" /\ Holds(h, BlockedOn(g))

\* C14: no reachable state has a recording call and an Invocations() call
\* that each wait for a lock held by the other.
C14_NoMutualWait ==
    \A g, h \in Goroutines :
        ~(/\ gor[g].call \in MethodNames
          /\ gor[h].call = "Invocations"
          /\ WaitsFor(g, h)
          /\ WaitsFor(h, g))

====
